---- MODULE Spec2Model ----
(***************************************************************************)
(* SuperImage: the Real-ESRGAN upscale session (RealESRGANUpscaler), the   *)
(* weight cache it resolves from, and its three callers: the batch worker, *)
(* the single-image worker and the CLI upscale command.                    *)
(*                                                                         *)
(* Spec    : the program. One worker (or the CLI) at a time drives one     *)
(*           session on thread 1; the weight cache outlives the sessions.  *)
(* SpecGui : the two workers under an ImageProcessor whose upscale_single  *)
(*           and upscale_batch may be called while a worker is running.    *)
(* SpecApi : the RealESRGANUpscaler class under an arbitrary client that   *)
(*           may call upscale from two threads and call upscale after      *)
(*           cleanup.                                                      *)
(***************************************************************************)
EXTENDS Integers, Sequences, FiniteSets, TLC

\* Bounds of the model.
MaxBatch == 2
MaxRuns == 2
MaxApiCalls == 3
MaxRejects == 1
MaxTotal == 50
MaxGestures == 3

\* Keys of MODEL_CONFIGS, and one identifier that is not a key.
ModelIds == {"RealESRGAN_x4plus", "RealESRGAN_x4plus_anime_6B"}
OtherModel == "not-a-real-model"

\* What an input path refers to: a decodable image, nothing, a file that
\* is no image, a directory.
Kinds == {"ok", "missing", "corrupt"}
CliKinds == Kinds \cup {"notfile"}

\* State of the file at a model's cache path.
FileStates == {"absent", "empty", "truncated", "complete"}

Threads == {1, 2}

VARIABLES
  fs,            \* [ModelIds -> FileStates]: the weight cache directory
  downloads,     \* urlretrieve calls made so far
  resolvedPath,  \* [ModelIds -> path or "none"]: the first path that
                 \* _get_model_path returned for the model
  outDir,        \* the operation's output directory exists
  cuda,          \* torch.cuda.is_available()
  cacheDir,      \* the weight cache directory (project_root/"models") exists
  session,       \* "none" | "live": a RealESRGANUpscaler has been constructed
  model_name,    \* self.model_name
  upsampler,     \* self.upsampler: "None" | "Built"
  heldImg,       \* the backend has an img attribute
  heldOutput,    \* the backend has an output attribute
  builds,        \* backends constructed since construction / last cleanup
  cleanups,      \* cleanup() calls on the session
  scratch,       \* the device cache holds memory of an inference made
                 \* since it was last emptied
  call,          \* [Threads -> upscale activation record]
  worker,        \* "none" | "batch" | "single" | "cli" | "api"
  wpc,           \* position of the worker's run() / of upscale_command
  input_paths,   \* the worker's inputs: a sequence of Kinds
  idx,           \* loop index of BatchUpscaleWorker.run (0-based)
  success_count,
  total,
  attempted,     \* history: the 1-based input indices handed to upscale
  results,       \* history: what each upscale call returned
  signals,       \* the signals the worker has emitted in this run
  exitCode,      \* upscale_command's return value, -1 while none
  runs,          \* operations started so far
  stderr,        \* the CLI process has written to sys.stderr
  nRunning,      \* worker threads (CLI processes) that are running
  procErrors,    \* "Another operation is already running" errors that
                 \* ImageProcessor has emitted
  inbox,         \* signals queued to the GUI thread and not yet delivered
  gui,           \* a MainWindow is connected to the ImageProcessor
  singleButton,  \* single_upscale_button.isEnabled()
  batchButton,   \* batch_upscale_button.isEnabled()
  image_paths,   \* ImageListWidget.image_paths: a sequence of Kinds
  aliased,       \* the worker's input_paths is the widget's list object
  notified,      \* history: the operation (1-based) whose finished signal
                 \* the GUI thread has delivered last, 0 if none
  current,       \* MainWindow.current_input_image: "none" or one of Kinds
  gestures,      \* history: selections, clearings and clicks on an upscale
                 \* button that the user has made
  probe          \* the value a function under test was applied to, and
                 \* its result

envVars == <<fs, downloads, resolvedPath, outDir, cuda>>
sessVars == <<cacheDir, session, model_name, upsampler, heldImg, heldOutput,
              builds, cleanups, scratch>>
winVars == <<gui, singleButton, batchButton, image_paths, aliased, notified,
             current, gestures, probe>>
\* Every variable but probe.
progVars == <<fs, downloads, resolvedPath, outDir, cuda, cacheDir, session,
              model_name, upsampler, heldImg, heldOutput, builds, cleanups,
              scratch, call, worker, wpc, input_paths, idx, success_count,
              total, attempted, results, signals, exitCode, runs, stderr,
              nRunning, procErrors, inbox, gui, singleButton, batchButton,
              image_paths, aliased, notified, current, gestures>>
drvVars == <<worker, wpc, input_paths, idx, success_count, total, attempted,
             results, signals, inbox, exitCode, runs, stderr, nRunning, procErrors, winVars>>
vars == <<envVars, sessVars, call, drvVars>>

\* pc: position in upscale; kind: what input_path refers to; ret: the value
\* returned; path: _get_model_path's result; hit: the path existed, nothing
\* was downloaded; post: the call began after a cleanup() of its session;
\* fail: the step that made the call return False; wrote: buffer.tofile
\* has written the output; dl, inf: the urlretrieve and enhance calls this
\* call has made.
IdleCall == [pc |-> "idle", kind |-> "ok", ret |-> "none", path |-> "none",
             hit |-> FALSE, post |-> FALSE, fail |-> "none", wrote |-> FALSE,
             dl |-> 0, inf |-> 0]

\* model_cache_dir / f"{model_name}.pth"
ModelPath(m) == <<"models", m, ".pth">>

\* The program just started: no session, no worker, the window (if any) as
\* MainWindow.__init__ builds it, with both upscale buttons disabled and an
\* empty image list.
InitProgram(w, p) ==
  /\ fs = [m \in ModelIds |-> "absent"]
  /\ downloads = 0
  /\ resolvedPath = [m \in ModelIds |-> "none"]
  /\ outDir = FALSE
  /\ cuda \in BOOLEAN
  /\ cacheDir = FALSE
  /\ session = "none"
  /\ model_name = "RealESRGAN_x4plus"
  /\ upsampler = "None"
  /\ heldImg = FALSE
  /\ heldOutput = FALSE
  /\ builds = 0
  /\ cleanups = 0
  /\ scratch = FALSE
  /\ call = [t \in Threads |-> IdleCall]
  /\ worker = w
  /\ wpc = p
  /\ input_paths = <<>>
  /\ idx = 0
  /\ success_count = 0
  /\ total = 0
  /\ attempted = <<>>
  /\ results = <<>>
  /\ signals = <<>>
  /\ exitCode = -1
  /\ runs = 0
  /\ stderr = FALSE
  /\ nRunning = 0
  /\ procErrors = 0
  /\ inbox = <<>>
  /\ singleButton = FALSE
  /\ batchButton = FALSE
  /\ image_paths = <<>>
  /\ aliased = FALSE
  /\ notified = 0
  /\ current = "none"
  /\ gestures = 0

\* The program used without a window: by a script, or from the command line.
InitWith(w, p) == InitProgram(w, p) /\ gui = FALSE /\ probe = <<>>

Init == InitWith("none", "idle")

(***************************************************************************)
(* RealESRGANUpscaler                                                      *)
(***************************************************************************)

NewUpsamplerEager == "Built"
\* __init__: self.upsampler = None
NewUpsampler == "None"

\* __init__, lines 70-74: a model name that is no key of MODEL_CONFIGS
\* raises ValueError before anything else is done.
KnownModel(m) == m \in ModelIds

RejectUnknownAfterMkdir ==
  /\ cacheDir' = TRUE
  /\ UNCHANGED <<session, model_name, upsampler, heldImg, heldOutput, builds,
                 cleanups, scratch>>
\* __init__, lines 70-74: the ValueError leaves no object and no directory.
RejectUnknown == UNCHANGED sessVars

\* __init__ for a model name that is a key of MODEL_CONFIGS; line 88 makes
\* the cache directory.
Construct(m) ==
  /\ cacheDir' = TRUE
  /\ scratch' = scratch
  /\ session' = "live"
  /\ model_name' = m
  /\ upsampler' = NewUpsampler
  /\ heldImg' = FALSE
  /\ heldOutput' = FALSE
  /\ builds' = 0
  /\ cleanups' = 0

\* cleanup(): drops the backend object, and with it whatever it holds, and
\* empties the device cache if there was a backend (lines 251-255).
Cleanup ==
  /\ scratch' = IF upsampler = "Built" THEN FALSE ELSE scratch
  /\ upsampler' = "None"
  /\ heldImg' = FALSE
  /\ heldOutput' = FALSE
  /\ builds' = 0
  /\ cleanups' = cleanups + 1
  /\ UNCHANGED <<cacheDir, session, model_name>>

NeedsLoadAlways(u) == TRUE
\* _load_upsampler: "if self.upsampler is not None: return"
NeedsLoad(u) == u = "None"

NeedsDownloadAlways(f) == TRUE
\* _get_model_path: "if not model_path.exists()"
NeedsDownload(f) == f = "absent"

\* What a failed urlretrieve may leave at the cache path: nothing (the
\* request failed), a zero-length file or a truncated one (the transfer
\* failed after the file was opened).
FailedDownloadLeaves == {"absent", "empty", "truncated"}

\* torch.load of the weights inside RealESRGANer(...) needs the whole file.
Loadable(f) == f = "complete"

Returned(t, v) == [call EXCEPT ![t].pc = "returned", ![t].ret = v]
Goto(t, p) == [call EXCEPT ![t].pc = p]

\* "return False" at 188, 202 and 232, and the handler at 245-247: the
\* activation c returns False because of the step named why.
FailsAt(c, why) == [c EXCEPT !.pc = "returned", !.ret = "False", !.fail = why]
Fails(t, why) == [Returned(t, "False") EXCEPT ![t].fail = why]

InputMissingNever(k) == FALSE
\* upscale, line 186: not input_path.exists()
InputMissing(k) == k = "missing"

\* upscale, lines 183-188: the input path does not exist.
U_Exists(t) ==
  /\ call[t].pc = "exists"
  /\ call' = IF InputMissing(call[t].kind) THEN Fails(t, "missing") ELSE Goto(t, "mkdir")
  /\ UNCHANGED <<envVars, sessVars, drvVars>>

\* upscale, line 191: output_path.parent.mkdir; an OSError is caught at 245.
U_Mkdir(t) ==
  /\ call[t].pc = "mkdir"
  /\ \E ok \in BOOLEAN :
       /\ ok \/ ~outDir
       /\ outDir' = (outDir \/ ok)
       /\ call' = IF ok THEN Goto(t, "load") ELSE Fails(t, "mkdir")
  /\ UNCHANGED <<fs, downloads, resolvedPath, cuda>>
  /\ UNCHANGED <<sessVars, drvVars>>

\* _load_upsampler, lines 113-114.
U_Load(t) ==
  /\ call[t].pc = "load"
  /\ call' = IF NeedsLoad(upsampler) THEN Goto(t, "resolve") ELSE Goto(t, "decode")
  /\ UNCHANGED <<envVars, sessVars, drvVars>>

RetryFailedDownload(c) == [c EXCEPT !.pc = "resolve"]
\* _get_model_path, lines 103-107: a failed urlretrieve raises RuntimeError,
\* which is re-raised at 155 and caught at 245: the call returns False.
AfterFailedDownload(c) == FailsAt(c, "download")

\* _get_model_path, lines 94-109, called at line 119.
U_Resolve(t) ==
  /\ call[t].pc = "resolve"
  /\ LET m == model_name
         p == ModelPath(m)
         c == [call[t] EXCEPT !.dl = @ + 1]
         ok(d) == /\ resolvedPath' = [resolvedPath EXCEPT
                                        ![m] = IF @ = "none" THEN p ELSE @]
                  /\ call' = [call EXCEPT ![t] =
                                [d EXCEPT !.pc = "construct", !.path = p,
                                          !.hit = ~NeedsDownload(fs[m])]]
     IN IF NeedsDownload(fs[m])
          THEN /\ downloads' = downloads + 1
               /\ \/ /\ fs' = [fs EXCEPT ![m] = "complete"]
                     /\ ok(c)
                  \/ /\ \E f \in FailedDownloadLeaves : fs' = [fs EXCEPT ![m] = f]
                     /\ call' = [call EXCEPT ![t] = AfterFailedDownload(c)]
                     /\ UNCHANGED resolvedPath
          ELSE /\ ok(call[t])
               /\ UNCHANGED <<fs, downloads>>
  /\ UNCHANGED <<outDir, cuda, sessVars, drvVars>>

\* _load_upsampler, lines 120-155: RRDBNet and RealESRGANer(model_path=...).
\* Any exception is re-raised as RuntimeError and caught at 245; upsampler
\* is assigned only when the constructor returns.
U_Construct(t) ==
  /\ call[t].pc = "construct"
  /\ \/ /\ Loadable(fs[model_name])
        /\ upsampler' = "Built"
        /\ builds' = builds + 1
        /\ heldImg' = FALSE
        /\ heldOutput' = FALSE
        /\ call' = Goto(t, "decode")
        /\ UNCHANGED <<cacheDir, session, model_name, cleanups, scratch>>
     \/ /\ call' = Fails(t, "load")
        /\ UNCHANGED sessVars
  /\ UNCHANGED <<envVars, drvVars>>

BackendDroppedOnFailure(u) == "None"
\* upscale, lines 200-202, 228-232 and 245-247: the failure returns do not
\* assign self.upsampler.
BackendAfterFailure(u) == u

\* upscale, lines 196-202: np.fromfile and cv2.imdecode; img is None (or
\* np.fromfile raises) for a file that is no image.
U_Decode(t) ==
  /\ call[t].pc = "decode"
  /\ IF call[t].kind = "ok"
       THEN call' = Goto(t, "enhance") /\ UNCHANGED upsampler
       ELSE call' = Fails(t, "decode") /\ upsampler' = BackendAfterFailure(upsampler)
  /\ UNCHANGED <<cacheDir, session, model_name, heldImg, heldOutput, builds,
                 cleanups, scratch>>
  /\ UNCHANGED <<envVars, drvVars>>

\* upscale, line 209: self.upsampler.enhance(img, outscale). The backend
\* stores the pre-processed input as its img attribute and the network's
\* result as its output attribute (comment at 215-217). An exception
\* (out of memory, or upsampler being None) is caught at 245, after the
\* backend may have stored img, or img and output. An inference on the
\* accelerator leaves memory in the device cache, whether it ends or fails.
U_Enhance(t) ==
  /\ call[t].pc = "enhance"
  /\ LET ran == upsampler = "Built"
         c == [call[t] EXCEPT !.inf = IF ran THEN @ + 1 ELSE @]
     IN /\ scratch' = (scratch \/ (cuda /\ ran))
        /\ \E ok, hi, ho \in BOOLEAN :
             IF ran /\ ok
               THEN /\ heldImg' = TRUE
                    /\ heldOutput' = TRUE
                    /\ UNCHANGED upsampler
                    /\ call' = [call EXCEPT ![t] = [c EXCEPT !.pc = "release"]]
               ELSE /\ ho => hi
                    /\ heldImg' = (heldImg \/ (ran /\ hi))
                    /\ heldOutput' = (heldOutput \/ (ran /\ ho))
                    /\ upsampler' = BackendAfterFailure(upsampler)
                    /\ call' = [call EXCEPT ![t] = FailsAt(c, "inference")]
  /\ UNCHANGED <<cacheDir, session, model_name, builds, cleanups>>
  /\ UNCHANGED <<envVars, drvVars>>

\* upscale, lines 212-222: empty the device cache (if there is a device),
\* delete the backend's img and output attributes.
U_Release(t) ==
  /\ call[t].pc = "release"
  /\ scratch' = IF cuda THEN FALSE ELSE scratch
  /\ heldImg' = FALSE
  /\ heldOutput' = FALSE
  /\ call' = Goto(t, "encode")
  /\ UNCHANGED <<cacheDir, session, model_name, upsampler, builds, cleanups>>
  /\ UNCHANGED <<envVars, drvVars>>

EncodeReturnsTrue(ok) == "True"
\* upscale, lines 226-243: True after buffer.tofile, False when the encoder
\* reports failure.
EncodeReturns(ok) == IF ok THEN "True" ELSE "False"

\* upscale, lines 225-243: cv2.imencode and buffer.tofile; an encoder that
\* reports failure (229-232) or raises (245-247) gives False and writes
\* nothing.
U_Encode(t) ==
  /\ call[t].pc = "encode"
  /\ \E ok \in BOOLEAN :
       /\ call' = [call EXCEPT ![t].pc = "returned",
                               ![t].ret = EncodeReturns(ok),
                               ![t].wrote = ok,
                               ![t].fail = IF ok THEN "none" ELSE "encode"]
       /\ upsampler' = IF ok THEN upsampler ELSE BackendAfterFailure(upsampler)
  /\ UNCHANGED <<cacheDir, session, model_name, heldImg, heldOutput, builds,
                 cleanups, scratch>>
  /\ UNCHANGED <<envVars, drvVars>>

\* One step of the upscale call running on thread t.
UpscaleStep(t) ==
  \/ U_Exists(t)
  \/ U_Mkdir(t)
  \/ U_Load(t)
  \/ U_Resolve(t)
  \/ U_Construct(t)
  \/ U_Decode(t)
  \/ U_Enhance(t)
  \/ U_Release(t)
  \/ U_Encode(t)

\* Calling upscale(input_path=...) on thread t with an input of kind k.
Invoke(t, k) ==
  [call EXCEPT ![t] = [IdleCall EXCEPT !.pc = "exists", !.kind = k,
                                       !.post = (cleanups > 0)]]

(***************************************************************************)
(* Signals                                                                 *)
(***************************************************************************)

\* progress(int, str): the percentage, and from the status text the item's
\* number, the total and the file name ("Processing 2/5: name"), each 0 if
\* the text has none. A file is named by its 1-based position in the input.
Progress(pct, item, of, name) ==
  [sig |-> "progress", args |-> <<pct, item, of, name>>]
Finished(args) == [sig |-> "finished", args |-> args]
Error == [sig |-> "error", args |-> <<>>]

\* The signals of s that change what the window's buttons show: on_progress
\* (main_window.py 278-280) only sets the progress bar, which is not part of
\* the state here.
Queued(s) ==
  LET shown == SelectSeq(s, LAMBDA x : x.sig # "progress")
  IN  [k \in 1..Len(shown) |->
         [run |-> runs, from |-> worker, sig |-> shown[k].sig,
          args |-> shown[k].args]]

Emit(s) ==
  /\ signals' = signals \o s
  /\ inbox' = IF gui THEN inbox \o Queued(s) ELSE inbox

\* ImageProcessor.upscale_single / upscale_batch and upscale_command start
\* an operation with fresh locals; the session of an earlier operation is
\* out of reach by then.
StartIn(w, paths, m, dir) ==
  /\ worker' = w
  /\ wpc' = "init"
  /\ input_paths' = paths
  /\ idx' = 0
  /\ success_count' = 0
  /\ total' = 0
  /\ attempted' = <<>>
  /\ results' = <<>>
  /\ signals' = <<>>
  /\ exitCode' = -1
  /\ runs' = runs + 1
  /\ session' = "none"
  /\ model_name' = m
  /\ upsampler' = "None"
  /\ heldImg' = FALSE
  /\ heldOutput' = FALSE
  /\ builds' = 0
  /\ cleanups' = 0
  /\ outDir' = dir
  /\ stderr' = FALSE
  /\ nRunning' = nRunning + 1
  /\ UNCHANGED <<fs, downloads, resolvedPath, cuda, cacheDir, scratch, call,
                 procErrors, inbox>>

\* An operation whose output directory is not known to exist.
Start(w, paths, m) == StartIn(w, paths, m, FALSE)

IsBusyNever == FALSE
\* ImageProcessor.is_busy, and the guard of upscale_single and upscale_batch:
\* self.worker is not None and self.worker.isRunning().
IsBusy == wpc # "idle"

CanStart == ~IsBusy /\ runs < MaxRuns

\* run() (or upscale_command) returns: its locals, the upscaler among them,
\* go out of scope and the thread (the process) ends.
RunReturns ==
  /\ wpc = "done"
  /\ worker' = "none"
  /\ wpc' = "idle"
  /\ input_paths' = <<>>
  /\ idx' = 0
  /\ success_count' = 0
  /\ total' = 0
  /\ attempted' = <<>>
  /\ results' = <<>>
  /\ signals' = <<>>
  /\ exitCode' = -1
  /\ session' = "none"
  /\ upsampler' = "None"
  /\ heldImg' = FALSE
  /\ heldOutput' = FALSE
  /\ builds' = 0
  /\ cleanups' = 0
  /\ outDir' = FALSE
  /\ stderr' = FALSE
  /\ nRunning' = nRunning - 1
  /\ UNCHANGED <<fs, downloads, resolvedPath, cuda, cacheDir, scratch, call,
                 model_name, runs, procErrors, inbox, winVars>>

BatchInputs == UNION {[1..n -> Kinds] : n \in 0..MaxBatch}

(***************************************************************************)
(* BatchUpscaleWorker                                                      *)
(***************************************************************************)

\* ImageProcessor.upscale_batch: the worker is built from the list and the
\* "model" setting, and started.
StartBatch ==
  /\ CanStart
  /\ \E paths \in BatchInputs, m \in ModelIds \cup {OtherModel} :
       Start("batch", paths, m) /\ UNCHANGED winVars

\* run, lines 105-108.
B_Init ==
  /\ worker = "batch" /\ wpc = "init"
  /\ total' = Len(input_paths)
  /\ success_count' = 0
  /\ Emit(<<Progress(0, 0, 0, 0)>>)
  /\ wpc' = "construct"
  /\ UNCHANGED <<worker, input_paths, idx, attempted, results, exitCode, runs, stderr, nRunning, procErrors, winVars>>
  /\ UNCHANGED <<envVars, sessVars, call>>

\* run, lines 110-115: RealESRGANUpscaler(...) raises ValueError for a model
\* name that is no key of MODEL_CONFIGS.
B_Construct ==
  /\ worker = "batch" /\ wpc = "construct"
  /\ IF KnownModel(model_name)
       THEN Construct(model_name) /\ wpc' = "mkdir"
       ELSE RejectUnknown /\ wpc' = "except"
  /\ UNCHANGED <<worker, input_paths, idx, success_count, total, attempted,
                 results, signals, inbox, exitCode, runs, stderr, nRunning, procErrors, winVars>>
  /\ UNCHANGED <<envVars, call>>

\* run, lines 117-118: output_dir_path.mkdir(parents=True, exist_ok=True)
\* raises OSError when the directory cannot be created.
B_Mkdir ==
  /\ worker = "batch" /\ wpc = "mkdir"
  /\ \E ok \in BOOLEAN :
       /\ outDir' = ok
       /\ wpc' = IF ok THEN "loop" ELSE "except"
  /\ UNCHANGED <<worker, input_paths, idx, success_count, total, attempted,
                 results, signals, inbox, exitCode, runs, stderr, nRunning, procErrors, winVars>>
  /\ UNCHANGED <<fs, downloads, resolvedPath, cuda>>
  /\ UNCHANGED <<sessVars, call>>

(***************************************************************************)
(* Python float arithmetic (IEEE 754 binary64, round to nearest, ties to   *)
(* even), on numbers held as digits to the base Limb so that every         *)
(* intermediate value is a small integer                                   *)
(***************************************************************************)

RECURSIVE Pow2(_)
Pow2(k) == IF k = 0 THEN 1 ELSE 2 * Pow2(k - 1)

\* Three digits of 18 bits hold the 53 bits of a float's significand and
\* the bit after them.
Limb == Pow2(18)

RECURSIVE Shift(_, _)
\* The s >= 1 with n <= i * 2^s < 2n, for 0 < i < n.
Shift(i, n) == IF 2 * i >= n THEN 1 ELSE 1 + Shift(2 * i, n)

\* v with its bits below 2^drop rounded away: to the nearest multiple of
\* 2^drop, and to the even one of two equally near; sticky: a nonzero part
\* lies below v.
RoundToNearestEven(v, drop, sticky) ==
  LET half == Pow2(drop - 1)
      guard == (v \div half) % 2
      last == (v \div (2 * half)) % 2
      up == guard = 1 /\ (sticky \/ (v % half) # 0 \/ last = 1)
  IN  v - (v % (2 * half)) + (IF up THEN 2 * half ELSE 0)

\* run, line 124: int((idx / total) * 100), for 0 <= idx < total.
\* idx / total is the quotient rounded to 53 bits: q = (L1 L2 L3) * 2^-(53+s),
\* the digits from long division.  q * 100 is the exact product
\* (d0 d1 d2 d3) * 2^-(53+s) rounded to 53 bits again; it has 60 bits when
\* d0 < 64 and 61 otherwise.  int() drops what lies below 2^0.
BatchPercent(i, n) ==
  IF i = 0 THEN 0
  ELSE LET s == Shift(i, n)
           t1 == i * Pow2(s - 1) * Limb
           t2 == (t1 % n) * Limb
           t3 == (t2 % n) * Limb
           L1 == t1 \div n
           L2 == t2 \div n
           L3 == RoundToNearestEven(t3 \div n, 1, (t3 % n) # 0)
           p3 == L3 * 100
           p2 == (L2 * 100) + (p3 \div Limb)
           p1 == (L1 * 100) + (p2 \div Limb)
           d0 == p1 \div Limb
           d3 == RoundToNearestEven(p3 % Limb, IF d0 < 64 THEN 7 ELSE 8, FALSE)
           c2 == ((p2 % Limb) + (d3 \div Limb)) \div Limb
           c1 == ((p1 % Limb) + c2) \div Limb
       IN  (d0 + c1) \div Pow2(s - 1)

HasNextItemUntilFailure(i, n, res) ==
  i < n /\ (IF res = <<>> THEN TRUE ELSE res[Len(res)])
\* run, line 120: for idx, input_path in enumerate(self.input_paths)
HasNextItem(i, n, res) == i < n

ItemNumberZeroBased(i) == i
\* run, line 127: f"Processing {idx + 1}/{total}: {input_path.name}"
ItemNumber(i) == i + 1

\* run, lines 120-128: the next item's progress signal.
B_Announce ==
  /\ worker = "batch" /\ wpc = "loop"
  /\ HasNextItem(idx, Len(input_paths), results)
  /\ Emit(<<Progress(BatchPercent(idx, total), ItemNumber(idx), total, idx + 1)>>)
  /\ wpc' = "call"
  /\ UNCHANGED <<worker, input_paths, idx, success_count, total, attempted,
                 results, exitCode, runs, stderr, nRunning, procErrors, winVars>>
  /\ UNCHANGED <<envVars, sessVars, call>>

\* run, lines 130-134: upscale is called for the item.
B_Item ==
  /\ worker = "batch" /\ wpc = "call"
  /\ UNCHANGED <<signals, inbox>>
  /\ attempted' = Append(attempted, idx + 1)
  /\ call' = Invoke(1, input_paths[idx + 1])
  /\ wpc' = "in_upscale"
  /\ UNCHANGED <<worker, input_paths, idx, success_count, total, results,
                 exitCode, runs, stderr, nRunning, procErrors, winVars>>
  /\ UNCHANGED <<envVars, sessVars>>

\* run, lines 130-137: upscale has returned; count a success; next item.
B_AfterItem ==
  /\ worker = "batch" /\ wpc = "in_upscale"
  /\ call[1].pc = "returned"
  /\ results' = Append(results, call[1].ret = "True")
  /\ success_count' = IF call[1].ret = "True" THEN success_count + 1 ELSE success_count
  /\ idx' = idx + 1
  /\ call' = [call EXCEPT ![1] = IdleCall]
  /\ wpc' = "loop"
  /\ UNCHANGED <<worker, input_paths, total, attempted, signals, inbox, exitCode, runs, stderr, nRunning, procErrors, winVars>>
  /\ UNCHANGED <<envVars, sessVars>>

\* run, line 139: after the loop, upscaler.cleanup().
B_Cleanup ==
  /\ worker = "batch" /\ wpc = "loop"
  /\ ~HasNextItem(idx, Len(input_paths), results)
  /\ Cleanup
  /\ wpc' = "finish"
  /\ UNCHANGED <<worker, input_paths, idx, success_count, total, attempted,
                 results, signals, inbox, exitCode, runs, stderr, nRunning, procErrors, winVars>>
  /\ UNCHANGED <<envVars, call>>

\* What BatchUpscaleWorker.finished = Signal(int, int) carries at line 142.
BatchFinishedArgs == <<success_count, total>>

\* run, lines 141-142.
B_Finish ==
  /\ worker = "batch" /\ wpc = "finish"
  /\ Emit(<<Progress(100, 0, 0, 0), Finished(BatchFinishedArgs)>>)
  /\ wpc' = "done"
  /\ UNCHANGED <<worker, input_paths, idx, success_count, total, attempted,
                 results, exitCode, runs, stderr, nRunning, procErrors, winVars>>
  /\ UNCHANGED <<envVars, sessVars, call>>

\* run, lines 144-146: except Exception.
B_Except ==
  /\ worker = "batch" /\ wpc = "except"
  /\ Emit(<<Error, Finished(<<0, Len(input_paths)>>)>>)
  /\ wpc' = "done"
  /\ UNCHANGED <<worker, input_paths, idx, success_count, total, attempted,
                 results, exitCode, runs, stderr, nRunning, procErrors, winVars>>
  /\ UNCHANGED <<envVars, sessVars, call>>

BatchStep ==
  \/ B_Init
  \/ B_Construct
  \/ B_Mkdir
  \/ B_Announce
  \/ B_Item
  \/ B_AfterItem
  \/ B_Cleanup
  \/ B_Finish
  \/ B_Except

(***************************************************************************)
(* UpscaleWorker                                                           *)
(***************************************************************************)

SingleFailureWithoutFinished == <<Error>>
\* run, lines 67-69 and 72-73: error.emit(...), then finished.emit(False, "").
SingleFailure == <<Error, Finished(<<FALSE, "">>)>>

\* ImageProcessor.upscale_single.
StartSingle ==
  /\ CanStart
  /\ \E k \in Kinds, m \in ModelIds \cup {OtherModel} :
       Start("single", <<k>>, m) /\ UNCHANGED winVars

\* run, line 45.
S_Init ==
  /\ worker = "single" /\ wpc = "init"
  /\ Emit(<<Progress(10, 0, 0, 0)>>)
  /\ wpc' = "construct"
  /\ UNCHANGED <<worker, input_paths, idx, success_count, total, attempted,
                 results, exitCode, runs, stderr, nRunning, procErrors, winVars>>
  /\ UNCHANGED <<envVars, sessVars, call>>

\* run, lines 47-60: construct, emit progress, call upscale; ValueError for
\* an unknown model name goes to the handler at line 71.
S_Construct ==
  /\ worker = "single" /\ wpc = "construct"
  /\ IF KnownModel(model_name)
       THEN /\ Construct(model_name)
            /\ Emit(<<Progress(30, 0, 0, 0)>>)
            /\ attempted' = Append(attempted, 1)
            /\ call' = Invoke(1, input_paths[1])
            /\ wpc' = "in_upscale"
       ELSE /\ RejectUnknown
            /\ UNCHANGED <<signals, inbox, attempted, call>>
            /\ wpc' = "except"
  /\ UNCHANGED <<worker, input_paths, idx, success_count, total, results,
                 exitCode, runs, stderr, nRunning, procErrors, winVars>>
  /\ UNCHANGED envVars

\* run, lines 56-69: upscale has returned; cleanup; report.
S_After ==
  /\ worker = "single" /\ wpc = "in_upscale"
  /\ call[1].pc = "returned"
  /\ results' = Append(results, call[1].ret = "True")
  /\ Cleanup
  /\ IF call[1].ret = "True"
       THEN Emit(<<Progress(100, 0, 0, 0), Finished(<<TRUE, "output_path">>)>>)
       ELSE Emit(SingleFailure)
  /\ call' = [call EXCEPT ![1] = IdleCall]
  /\ wpc' = "done"
  /\ UNCHANGED <<worker, input_paths, idx, success_count, total, attempted,
                 exitCode, runs, stderr, nRunning, procErrors, winVars>>
  /\ UNCHANGED envVars

\* run, lines 71-73: except Exception.
S_Except ==
  /\ worker = "single" /\ wpc = "except"
  /\ Emit(SingleFailure)
  /\ wpc' = "done"
  /\ UNCHANGED <<worker, input_paths, idx, success_count, total, attempted,
                 results, exitCode, runs, stderr, nRunning, procErrors, winVars>>
  /\ UNCHANGED <<envVars, sessVars, call>>

SingleStep ==
  \/ S_Init
  \/ S_Construct
  \/ S_After
  \/ S_Except

(***************************************************************************)
(* upscale_command (CLI)                                                   *)
(***************************************************************************)

\* main: argparse restricts --model to the two catalog names; a command
\* line without a subcommand has no input path.
StartCli ==
  /\ CanStart
  /\ \E paths \in {<<>>} \cup {<<k>> : k \in CliKinds}, m \in ModelIds :
       Start("cli", paths, m) /\ UNCHANGED winVars

\* main, lines 156-160: without a subcommand, print_help() (which writes to
\* sys.stdout) and return 1.
C_NoCommand ==
  /\ worker = "cli" /\ wpc = "init"
  /\ input_paths = <<>>
  /\ exitCode' = 1
  /\ wpc' = "done"
  /\ UNCHANGED <<worker, input_paths, idx, success_count, total, attempted,
                 results, signals, inbox, runs, stderr, nRunning, procErrors, winVars>>
  /\ UNCHANGED <<envVars, sessVars, call>>

\* upscale_command, lines 34-48: the input checks, each with its message on
\* sys.stderr, then the constructor.
C_Check ==
  /\ worker = "cli" /\ wpc = "init"
  /\ input_paths # <<>>
  /\ IF input_paths[1] \in {"missing", "notfile"}
       THEN /\ exitCode' = 1
            /\ stderr' = TRUE
            /\ wpc' = "done"
            /\ UNCHANGED <<sessVars, call, attempted>>
       ELSE /\ Construct(model_name)
            /\ attempted' = Append(attempted, 1)
            /\ call' = Invoke(1, input_paths[1])
            /\ wpc' = "in_upscale"
            /\ UNCHANGED <<exitCode, stderr>>
  /\ UNCHANGED <<worker, input_paths, idx, success_count, total, results,
                 signals, inbox, runs, nRunning, procErrors, winVars>>
  /\ UNCHANGED envVars

\* upscale_command, lines 51-66: upscale has returned; a False result gets
\* its message on sys.stderr.
C_After ==
  /\ worker = "cli" /\ wpc = "in_upscale"
  /\ call[1].pc = "returned"
  /\ results' = Append(results, call[1].ret = "True")
  /\ exitCode' = IF call[1].ret = "True" THEN 0 ELSE 1
  /\ stderr' = (call[1].ret # "True")
  /\ call' = [call EXCEPT ![1] = IdleCall]
  /\ wpc' = "finally"
  /\ UNCHANGED <<worker, input_paths, idx, success_count, total, attempted,
                 signals, inbox, runs, nRunning, procErrors, winVars>>
  /\ UNCHANGED <<envVars, sessVars>>

\* upscale_command, lines 68-70: KeyboardInterrupt is no Exception, so it
\* leaves upscale wherever the call stands; one that arrives inside
\* urlretrieve (line 102) passes the handler at 104 and leaves what a
\* failed download leaves.
C_Interrupt ==
  /\ worker = "cli" /\ wpc = "in_upscale"
  /\ call[1].pc # "returned"
  /\ \E f \in {"untouched"} \cup FailedDownloadLeaves :
       IF f # "untouched" /\ call[1].pc = "resolve" /\ NeedsDownload(fs[model_name])
         THEN /\ fs' = [fs EXCEPT ![model_name] = f]
              /\ downloads' = downloads + 1
         ELSE UNCHANGED <<fs, downloads>>
  /\ exitCode' = 1
  /\ stderr' = TRUE
  /\ call' = [call EXCEPT ![1] = IdleCall]
  /\ wpc' = "finally"
  /\ UNCHANGED <<worker, input_paths, idx, success_count, total, attempted,
                 results, signals, inbox, runs, nRunning, procErrors, winVars>>
  /\ UNCHANGED <<resolvedPath, outDir, cuda, sessVars>>

\* upscale_command, lines 74-75: finally: upscaler.cleanup().
C_Finally ==
  /\ worker = "cli" /\ wpc = "finally"
  /\ Cleanup
  /\ wpc' = "done"
  /\ UNCHANGED <<worker, input_paths, idx, success_count, total, attempted,
                 results, signals, inbox, exitCode, runs, stderr, nRunning, procErrors, winVars>>
  /\ UNCHANGED <<envVars, call>>

CliStep ==
  \/ C_NoCommand
  \/ C_Check
  \/ C_After
  \/ C_Interrupt
  \/ C_Finally

Next ==
  \/ StartBatch
  \/ BatchStep
  \/ StartSingle
  \/ SingleStep
  \/ StartCli
  \/ CliStep
  \/ UpscaleStep(1)
  \/ RunReturns

Spec == Init /\ [][Next]_vars

(***************************************************************************)
(* ImageProcessor under requests that arrive at any time (SpecGui): the    *)
(* GUI thread may call upscale_single or upscale_batch while a worker      *)
(* thread is running.                                                      *)
(***************************************************************************)

\* ImageProcessor.upscale_single / upscale_batch, lines 175-177 and 199-201:
\* while the worker is running, emit the error and return.
P_Reject ==
  /\ IsBusy
  /\ procErrors < MaxRejects
  /\ procErrors' = procErrors + 1
  /\ UNCHANGED <<worker, wpc, input_paths, idx, success_count, total, attempted,
                 results, signals, inbox, exitCode, runs, stderr, nRunning, winVars>>
  /\ UNCHANGED <<envVars, sessVars, call>>

NextGui ==
  \/ StartBatch
  \/ BatchStep
  \/ StartSingle
  \/ SingleStep
  \/ UpscaleStep(1)
  \/ RunReturns
  \/ P_Reject

SpecGui == Init /\ [][NextGui]_vars

(***************************************************************************)
(* RealESRGANUpscaler under an arbitrary client (SpecApi): any order of    *)
(* upscale calls from two threads and cleanup calls on one session.        *)
(***************************************************************************)

InitApi == InitWith("api", "api")

\* The client constructs the session.
Api_Construct ==
  /\ worker = "api" /\ session = "none"
  /\ \E m \in ModelIds : Construct(m)
  /\ UNCHANGED <<envVars, call, drvVars>>

\* The client calls upscale on thread t.
Api_Call(t) ==
  /\ worker = "api" /\ session = "live"
  /\ call[t].pc = "idle"
  /\ runs < MaxApiCalls
  /\ \E k \in Kinds : call' = Invoke(t, k)
  /\ runs' = runs + 1
  /\ UNCHANGED <<worker, wpc, input_paths, idx, success_count, total, attempted,
                 results, signals, inbox, exitCode, stderr, nRunning, procErrors, winVars>>
  /\ UNCHANGED <<envVars, sessVars>>

\* The client takes the value upscale returned on thread t.
Api_Return(t) ==
  /\ worker = "api"
  /\ call[t].pc = "returned"
  /\ call' = [call EXCEPT ![t] = IdleCall]
  /\ UNCHANGED <<envVars, sessVars, drvVars>>

\* The client calls cleanup() while no upscale call is running.
Api_Cleanup ==
  /\ worker = "api" /\ session = "live"
  /\ \A t \in Threads : call[t].pc = "idle"
  /\ cleanups < MaxApiCalls
  /\ Cleanup
  /\ UNCHANGED <<envVars, call, drvVars>>

NextApi ==
  \/ Api_Construct
  \/ \E t \in Threads : Api_Call(t)
  \/ \E t \in Threads : UpscaleStep(t)
  \/ \E t \in Threads : Api_Return(t)
  \/ Api_Cleanup

SpecApi == InitApi /\ [][NextApi]_vars

(***************************************************************************)
(* Properties                                                              *)
(***************************************************************************)

\* Positions of an upscale call past its entry check.
Working == {"mkdir", "load", "resolve", "construct", "decode", "enhance",
            "release", "encode"}

BatchRan == worker = "batch" /\ wpc = "done"

OneToN(n) == [i \in 1..n |-> i]

\* C1: whenever an upscale call has returned, on any return path, the
\* backend holds neither the img nor the output attribute.
C1_ReleasedOnEveryReturn ==
  \A t \in Threads : call[t].pc = "returned" => ~heldImg /\ ~heldOutput

\* C2: a second upscale call on a session with a call in flight is turned
\* away at entry: two calls are never both past the entry check.
C2_BusyRejection ==
  \A t1, t2 \in Threads :
    (t1 # t2 /\ call[t1].pc \in Working) => call[t2].pc \notin Working

\* C3 (as stated): a batch whose session was constructed has, when it ends,
\* passed every input to upscale exactly once and in input order.
C3_EveryInputOncePerSession ==
  (BatchRan /\ session = "live") => attempted = OneToN(Len(input_paths))

\* C3 (amended): a batch whose session was constructed and whose output
\* directory was created passes every input to upscale exactly once, in
\* input order, one at a time, whatever the earlier items returned.
C3_EveryInputOnceInOrder ==
  worker = "batch" =>
    /\ attempted = OneToN(Len(attempted))
    /\ Len(attempted) <= Len(input_paths)
    /\ Len(attempted) = Len(results) + (IF call[1].pc = "idle" THEN 0 ELSE 1)
    /\ call[2].pc = "idle"
    /\ (wpc = "done" /\ session = "live" /\ outDir) =>
         attempted = OneToN(Len(input_paths))

\* A batch that has ended normally in which an item after a failed item was
\* attempted.
C3_Witness ==
  /\ BatchRan /\ session = "live" /\ outDir
  /\ Len(results) = 2 /\ ~results[1]
  /\ attempted = <<1, 2>>

Count(res, v) == Cardinality({i \in 1..Len(res) : res[i] = v})

\* The display names (here the 1-based positions) of the items whose
\* upscale returned False, in the order attempted.
RECURSIVE FailedNames(_, _)
FailedNames(att, res) ==
  IF res = <<>> THEN <<>>
  ELSE LET n == Len(res)
           rest == FailedNames(SubSeq(att, 1, n - 1), SubSeq(res, 1, n - 1))
       IN IF res[n] THEN rest ELSE Append(rest, att[n])

\* C4: the finished signal of a batch carries (success_count, total_count,
\* failed list): the successes, the number of inputs, and the names of
\* exactly the failed items in order.
C4_ReportsTriple ==
  BatchRan =>
    LET f == signals[Len(signals)]
    IN /\ f.sig = "finished"
       /\ Len(f.args) = 3
       /\ f.args[1] = Count(results, TRUE)
       /\ f.args[2] = Len(input_paths)
       /\ f.args[3] = FailedNames(attempted, results)
       /\ f.args[1] + Len(f.args[3]) = f.args[2]

\* C5: when a caller that constructed a session has ended, cleanup has been
\* called on the session exactly once.
C5_CleanupExactlyOnce ==
  (wpc = "done" /\ session = "live") => cleanups = 1

\* C6: an upscale call begun after cleanup() neither builds a backend nor
\* runs inference.
C6_UnusableAfterCleanup ==
  \A t \in Threads :
    call[t].post => call[t].pc \notin {"construct", "enhance"}

\* C7: constructing a session neither touches the weight cache nor builds
\* the backend; until the session's first upscale call the backend is
\* absent; and the backend becomes present only in a step of an upscale
\* call (the constructor call inside _load_upsampler).
C7_LazyBackend ==
  [][/\ (session' = "live" /\ attempted' = <<>>) => upsampler' = "None"
     /\ (upsampler = "None" /\ upsampler' = "Built") => call[1].pc = "construct"
     /\ (call[1].pc = "idle" /\ call'[1].pc = "idle") =>
          (fs' = fs /\ downloads' = downloads /\ resolvedPath' = resolvedPath)
    ]_vars

\* A session has been constructed and no upscale call has been made yet.
C7_Witness ==
  /\ session = "live" /\ attempted = <<>>
  /\ wpc = "mkdir" /\ upsampler = "None"

\* C8: between cleanups a session constructs its backend at most once, and
\* once a call has succeeded the backend stays the built one for every
\* later call.
C8_OneBackendBuiltOnce ==
  /\ builds <= 1
  /\ (upsampler = "Built") <=> (builds = 1)
  /\ (cleanups = 0 /\ Count(results, TRUE) > 0) => upsampler = "Built"

\* Two items of one batch have succeeded on one backend.
C8_Witness ==
  /\ worker = "batch" /\ cleanups = 0
  /\ results = <<TRUE, TRUE>>
  /\ builds = 1

\* C9: once a model's weights have been resolved, no later resolution of
\* that model (a step of a session of that model that leaves "resolve")
\* downloads, and each returns the path the first one returned.
C9_ResolveIdempotent ==
  [][\A m \in ModelIds :
       (/\ resolvedPath[m] # "none"
        /\ model_name = m /\ model_name' = m
        /\ call[1].pc = "resolve" /\ call'[1].pc # "resolve") =>
         /\ downloads' = downloads
         /\ call'[1].pc \in {"construct", "idle"}
         /\ call'[1].pc = "construct" => call'[1].path = resolvedPath[m]
    ]_vars

\* A second session has resolved a model that the first one downloaded.
C9_Witness ==
  \E m \in ModelIds :
    /\ runs = 2 /\ model_name = m
    /\ downloads = 1 /\ fs[m] = "complete"
    /\ Len(attempted) = 1 /\ call[1].pc = "construct" /\ call[1].hit

\* C10: the path handed to the backend constructor always refers to a file
\* that exists and is not empty.
C10_WeightsFileValid ==
  \A t \in Threads :
    call[t].pc = "construct" => fs[model_name] \notin {"absent", "empty"}

\* C11: constructing a session for a model name outside the catalog fails
\* (the caller lands in its exception handler) and leaves everything as it
\* was: no cache directory is made, nothing is downloaded or resolved, no
\* session object exists and no upscale call begins.
C11_UnknownModelNoEffect ==
  [][(wpc = "construct" /\ model_name \notin ModelIds) =>
       /\ wpc' = "except"
       /\ session' = "none"
       /\ cacheDir' = cacheDir
       /\ fs' = fs /\ downloads' = downloads /\ resolvedPath' = resolvedPath
       /\ call' = call
    ]_vars

\* The first operation of the process asked for an unknown model and has
\* failed: there is still no cache directory.
C11_Witness ==
  /\ wpc = "except" /\ model_name = OtherModel
  /\ session = "none" /\ ~cacheDir /\ downloads = 0

\* C12: a call whose input is missing or is no decodable image fails at the
\* decode before weights are resolved or a backend is built: such a call
\* never stands at the resolution or the construction step.
C12_DecodeBeforeLoad ==
  \A t \in Threads :
    call[t].kind # "ok" => call[t].pc \notin {"resolve", "construct"}

\* Positions of an upscale call that has been entered and has not returned.
Active == Working \cup {"exists"}

\* The failure a step of upscale reports.
CategoryAt ==
  [exists |-> "missing", mkdir |-> "mkdir", resolve |-> "download",
   construct |-> "load", decode |-> "decode", enhance |-> "inference",
   encode |-> "encode"]

\* C13: an upscale call ends only by returning True or False (a
\* KeyboardInterrupt of the CLI, which sets the exit code, aside): a missing
\* input, a failed download, a failed backend load, an undecodable input,
\* an inference error and an encode failure each return False with nothing
\* written, and True is returned only from the encode step after the output
\* has been written.
C13_FalseOnEveryFailure ==
  [][\A t \in Threads :
       (call[t].pc \in Active /\ call'[t].pc \notin Active /\ exitCode' = exitCode) =>
         LET d == call'[t]
         IN /\ d.pc = "returned"
            /\ d.ret \in {"True", "False"}
            /\ (d.ret = "True") <=> (call[t].pc = "encode" /\ d.wrote)
            /\ (d.ret = "True") <=> (d.fail = "none")
            /\ (d.ret = "False") => (d.fail = CategoryAt[call[t].pc] /\ ~d.wrote)
    ]_vars

\* In one batch an item has been written and the next has failed to encode.
C13_Witness ==
  /\ worker = "batch" /\ results = <<TRUE>>
  /\ call[1].pc = "returned" /\ call[1].ret = "False"
  /\ call[1].fail = "encode" /\ ~call[1].wrote

\* C14: one upscale call makes at most one download attempt and at most
\* one inference attempt; a call that failed to download returned False
\* without inference and left the backend unbuilt; a call whose inference
\* failed returned False.
C14_NoRetry ==
  \A t \in Threads :
    /\ call[t].dl <= 1
    /\ call[t].inf <= 1
    /\ call[t].fail = "download" =>
         (call[t].ret = "False" /\ call[t].inf = 0 /\ upsampler = "None")
    /\ call[t].fail = "inference" => call[t].ret = "False"

\* A call has returned False after its one download attempt failed.
C14_Witness ==
  /\ call[1].pc = "returned" /\ call[1].fail = "download"
  /\ call[1].dl = 1 /\ fs[model_name] # "complete"

\* C15: at most one worker thread runs at a time, and while one runs no
\* request starts another: a request then only emits "Another operation is
\* already running" and leaves the running worker, its session and its
\* upscale call as they are.
C15_OneWorkerAtATime ==
  [][/\ nRunning' <= 1
     /\ (nRunning > 0 /\ (runs' # runs \/ procErrors' # procErrors)) =>
          /\ runs' = runs
          /\ procErrors' = procErrors + 1
          /\ UNCHANGED <<worker, wpc, input_paths, idx, success_count, total,
                         attempted, results, signals, nRunning>>
          /\ UNCHANGED <<envVars, sessVars, call>>
    ]_vars

\* A request was turned away while a batch worker was inside inference, and
\* the worker has gone on.
C15_Witness ==
  /\ procErrors = 1 /\ nRunning = 1
  /\ worker = "batch" /\ wpc = "in_upscale" /\ call[1].pc = "release"

\* The progress signals among sigs that name an item, and those that report
\* completion.
ItemNotes(sigs) ==
  SelectSeq(sigs, LAMBDA s : s.sig = "progress" /\ s.args[4] # 0)
FinalNotes(sigs) ==
  SelectSeq(sigs, LAMBDA s : s.sig = "progress" /\ s.args[4] = 0 /\ s.args[1] = 100)

\* The i-th of the notes carries the number i, the total n and the name of
\* the i-th input.
ItemNotesInOrder(notes, n) ==
  \A i \in 1..Len(notes) :
    notes[i].args[2] = i /\ notes[i].args[3] = n /\ notes[i].args[4] = i

\* C16 (as stated): a batch of n inputs that has ended has emitted exactly
\* one progress signal per input, carrying its 1-based number, n and its
\* name, and one final progress signal.
C16_ProgressPerItem ==
  BatchRan =>
    /\ Len(ItemNotes(signals)) = Len(input_paths)
    /\ ItemNotesInOrder(ItemNotes(signals), Len(input_paths))
    /\ Len(FinalNotes(signals)) = 1

\* C16 (amended): in a batch of n inputs the item progress signals are, in
\* order, one per item handed to upscale, each emitted before its call and
\* carrying the item's 1-based number, n and its name; a batch whose
\* session was constructed and whose output directory was created ends
\* with one such signal for every input and then exactly one final progress
\* signal, which no batch emits before its last item has returned.
C16_ProgressPerAttemptedItem ==
  worker = "batch" =>
    LET n == Len(input_paths)
        notes == ItemNotes(signals)
        normal == wpc = "done" /\ session = "live" /\ outDir
    IN /\ ItemNotesInOrder(notes, n)
       /\ Len(notes) = Len(attempted) + (IF wpc = "call" THEN 1 ELSE 0)
       /\ Len(FinalNotes(signals)) = (IF normal THEN 1 ELSE 0)
       /\ normal => /\ Len(notes) = n
                    /\ Len(results) = n
                    /\ FinalNotes(signals) = <<signals[Len(signals) - 1]>>

\* A batch of two has ended normally: two item signals, inbox, then the final one.
C16_Witness ==
  /\ BatchRan /\ session = "live" /\ outDir
  /\ Len(input_paths) = 2
  /\ Len(ItemNotes(signals)) = 2
  /\ Len(FinalNotes(signals)) = 1

\* C17: with an accelerator, when an upscale call that reached inference
\* has returned, the device cache has been emptied.
C17_DeviceCacheEmptied ==
  \A t \in Threads :
    (cuda /\ call[t].pc = "returned" /\ call[t].inf > 0) => ~scratch

\* C18: when the CLI has ended, its exit code is 0 exactly if upscale
\* returned True, and every non-zero exit has left a message on the error
\* stream.
C18_ExitCodeAndDiagnostic ==
  (worker = "cli" /\ wpc = "done") =>
    /\ exitCode \in {0, 1}
    /\ (exitCode = 0) <=> (results = <<TRUE>>)
    /\ (exitCode # 0) => stderr

FinishedIn(sigs) == SelectSeq(sigs, LAMBDA s : s.sig = "finished")

\* C21: a worker emits no finished signal before its run ends, and when
\* the run has ended (on the success, the False and the exception path) it
\* has emitted exactly one, as the last signal of the run.
C21_OneTerminalFinished ==
  worker \in {"single", "batch"} =>
    /\ Len(FinishedIn(signals)) = (IF wpc = "done" THEN 1 ELSE 0)
    /\ wpc = "done" => signals[Len(signals)].sig = "finished"

\* A single worker has ended on its exception path: progress, error, and
\* finished last.
C21_Witness ==
  /\ worker = "single" /\ wpc = "done" /\ model_name = OtherModel
  /\ Len(signals) = 3
  /\ signals[2].sig = "error" /\ signals[3].sig = "finished"

\* C25: a built backend is dropped only by cleanup() or with its session:
\* every other step, the failure returns of upscale among them, leaves it
\* the built backend without constructing one.
C25_FailureKeepsBackend ==
  [][(upsampler = "Built" /\ cleanups' = cleanups /\ session' = session) =>
       (upsampler' = "Built" /\ builds' = builds)
    ]_vars

\* In one batch the first call built the backend and then failed to decode
\* its input, and the second call has succeeded on that same backend.
C25_Witness ==
  /\ worker = "batch" /\ input_paths = <<"corrupt", "ok">>
  /\ results = <<FALSE, TRUE>>
  /\ upsampler = "Built" /\ builds = 1 /\ cleanups = 0

\* C26: a call whose input path does not exist never gets past the entry
\* check, and the step that ends it returns False having written nothing
\* and changes neither the weight cache, the downloads, the output
\* directory nor the session and its backend.
C26_MissingInputChangesNothing ==
  [][\A t \in Threads :
       /\ call'[t].kind = "missing" => call'[t].pc \notin Working
       /\ (call[t].kind = "missing" /\ call[t].pc = "exists"
             /\ call'[t].pc # "exists") =>
            /\ call'[t].pc = "returned"
            /\ call'[t].ret = "False" /\ ~call'[t].wrote
            /\ UNCHANGED <<envVars, sessVars>>
    ]_vars

\* A call for a missing input has returned on a fresh session: nothing
\* downloaded, no backend, no output directory.
C26_Witness ==
  \E t \in Threads :
    /\ call[t].pc = "returned" /\ call[t].kind = "missing"
    /\ call[t].ret = "False"
    /\ upsampler = "None" /\ downloads = 0 /\ ~outDir

(***************************************************************************)
(* The percentage of line 124 over batches of up to MaxTotal items         *)
(***************************************************************************)

\* A batch of total items is about to announce item idx (0-based).
InitPercent ==
  /\ InitProgram("none", "idle")
  /\ gui = FALSE
  /\ \E n \in 1..MaxTotal : \E i \in 0..(n - 1) :
       probe = [idx |-> i, total |-> n, percent |-> -1]

\* run, line 124.
ComputePercent ==
  /\ probe.percent = -1
  /\ probe' = [probe EXCEPT !.percent = BatchPercent(probe.idx, probe.total)]
  /\ UNCHANGED progVars

SpecPercent == InitPercent /\ [][ComputePercent]_vars

\* C28 (as claimed): the percentage announced for item i (0-based) of a
\* batch of n items is within 0..100 and is floor(100*i/n).
C28_PercentIsFloor ==
  probe.percent # -1 =>
    /\ probe.percent \in 0..100
    /\ probe.percent = (100 * probe.idx) \div probe.total

(***************************************************************************)
(* The output paths of line 122 over batches of named files                *)
(***************************************************************************)

Dirs == {"a", "b"}
Stems == {"x", "y"}
Suffixes == {".png", ".jpg"}

\* An input path: its directory, and its file name as stem and suffix.
InputFiles == [parent : Dirs, name : Stems \X Suffixes]

\* pathlib: Path.stem and Path.suffix.
Stem(f) == f.name[1]
Suffix(f) == f.name[2]

\* run, lines 121-122:
\* output_dir_path / f"{input_file.stem}_upscaled{input_file.suffix}"
OutputFile(f) ==
  [parent |-> "output_dir", name |-> <<Stem(f), "_upscaled", Suffix(f)>>]

\* A batch of named files has been started; none is processed yet.
InitPaths ==
  /\ InitProgram("none", "idle")
  /\ gui = FALSE
  /\ \E n \in 0..MaxBatch : \E fl \in [1..n -> InputFiles] :
       probe = [inputs |-> fl, outputs |-> <<>>]

\* run, lines 120-134: the next item is written to its output path.
WriteOutput ==
  /\ Len(probe.outputs) < Len(probe.inputs)
  /\ probe' = [probe EXCEPT !.outputs =
                 Append(@, OutputFile(probe.inputs[Len(@) + 1]))]
  /\ UNCHANGED progVars

SpecPaths == InitPaths /\ [][WriteOutput]_vars

\* C22 (as claimed): no two distinct inputs of a batch are written to the
\* same output path.
C22_DistinctOutputs ==
  \A j, k \in 1..Len(probe.outputs) :
    probe.inputs[j] # probe.inputs[k] => probe.outputs[j] # probe.outputs[k]

(***************************************************************************)
(* MainWindow: the user's gestures and the delivery of the processor's     *)
(* signals on the GUI thread, while the worker thread runs                 *)
(***************************************************************************)

\* What a file picked in a dialog or dropped on the window can be.
WinKinds == {"ok", "corrupt"}
WinInputs == UNION {[1..n -> WinKinds] : n \in 1..MaxBatch}

InitWin == InitProgram("none", "idle") /\ gui = TRUE /\ probe = <<>>

\* on_image_selected, lines 215-223.
G_SelectOne ==
  /\ gestures < MaxGestures
  /\ gestures' = gestures + 1
  /\ \E k \in WinKinds :
       /\ current' = k
       /\ image_paths' = <<k>>
  /\ singleButton' = TRUE
  /\ aliased' = FALSE
  /\ UNCHANGED <<envVars, sessVars, call>>
  /\ UNCHANGED <<worker, wpc, input_paths, idx, success_count, total, attempted,
                 results, signals, exitCode, runs, stderr, nRunning, procErrors,
                 inbox, gui, batchButton, notified, probe>>

\* open_multi_image_dialog, lines 362-382, with files chosen.
G_SelectImages ==
  /\ gestures < MaxGestures
  /\ gestures' = gestures + 1
  /\ \E files \in WinInputs : image_paths' = files
  /\ current' = "none"
  /\ singleButton' = FALSE
  /\ batchButton' = TRUE
  /\ aliased' = FALSE
  /\ UNCHANGED <<envVars, sessVars, call>>
  /\ UNCHANGED <<worker, wpc, input_paths, idx, success_count, total, attempted,
                 results, signals, exitCode, runs, stderr, nRunning, procErrors,
                 inbox, gui, notified, probe>>

\* ImageListWidget.clear_all, lines 74-79, which empties the list object in
\* place, and on_images_cleared, lines 337-345.
G_ClearAll ==
  /\ gestures < MaxGestures
  /\ gestures' = gestures + 1
  /\ image_paths' = <<>>
  /\ input_paths' = IF aliased THEN <<>> ELSE input_paths
  /\ current' = "none"
  /\ singleButton' = FALSE
  /\ batchButton' = FALSE
  /\ UNCHANGED <<envVars, sessVars, call>>
  /\ UNCHANGED <<worker, wpc, idx, success_count, total, attempted, results,
                 signals, exitCode, runs, stderr, nRunning, procErrors, inbox,
                 gui, aliased, notified, probe>>

\* upscale_single_image, lines 225-253, on a click of the enabled button with
\* an image selected: the "Busy" box, or the output directory is made and
\* the worker started.
G_ClickSingle ==
  /\ singleButton /\ current # "none"
  /\ gestures < MaxGestures
  /\ gestures' = gestures + 1
  /\ IF IsBusy
       THEN /\ UNCHANGED <<envVars, sessVars, call>>
            /\ UNCHANGED <<worker, wpc, input_paths, idx, success_count, total,
                           attempted, results, signals, exitCode, runs, stderr,
                           nRunning, procErrors, inbox, singleButton>>
       ELSE /\ \E m \in ModelIds \cup {OtherModel} :
                 StartIn("single", <<current>>, m, TRUE)
            /\ singleButton' = FALSE
  /\ UNCHANGED <<gui, batchButton, image_paths, aliased, notified, current,
                 probe>>

GetImagesSharesList == TRUE
\* ImageListWidget.get_images, lines 106-108: return self.image_paths.copy(),
\* a list of its own.
GetImagesShares == FALSE

\* upscale_batch_images, lines 255-276, on a click of the enabled button with
\* a list that is not empty.
G_ClickBatch ==
  /\ batchButton /\ image_paths # <<>>
  /\ gestures < MaxGestures
  /\ gestures' = gestures + 1
  /\ IF IsBusy
       THEN /\ UNCHANGED <<envVars, sessVars, call>>
            /\ UNCHANGED <<worker, wpc, input_paths, idx, success_count, total,
                           attempted, results, signals, exitCode, runs, stderr,
                           nRunning, procErrors, inbox, batchButton, aliased>>
       ELSE /\ \E m \in ModelIds \cup {OtherModel} :
                 Start("batch", image_paths, m)
            /\ batchButton' = FALSE
            /\ aliased' = GetImagesShares
  /\ UNCHANGED <<gui, singleButton, image_paths, notified, current, probe>>

\* A slot is called with the signal's arguments; a slot that requires more
\* of them than the signal carries raises TypeError before its body runs.
SlotRuns(args, required) == Len(args) >= required

\* The GUI thread's event loop delivers the next queued signal to its slot:
\* on_error (328-335), on_single_finished (282-298) or on_batch_finished
\* (300-326), which requires success_count, total and failed_files.
G_Deliver ==
  /\ inbox # <<>>
  /\ inbox' = Tail(inbox)
  /\ LET n == Head(inbox) IN
       IF n.sig = "error"
         THEN singleButton' = TRUE /\ batchButton' = TRUE /\ UNCHANGED notified
       ELSE IF n.from = "single"
         THEN singleButton' = TRUE /\ notified' = n.run /\ UNCHANGED batchButton
       ELSE /\ batchButton' = (batchButton \/ SlotRuns(n.args, 3))
            /\ notified' = n.run
            /\ UNCHANGED singleButton
  /\ UNCHANGED <<envVars, sessVars, call>>
  /\ UNCHANGED <<worker, wpc, input_paths, idx, success_count, total, attempted,
                 results, signals, exitCode, runs, stderr, nRunning, procErrors,
                 gui, image_paths, aliased, current, gestures, probe>>

NextWin ==
  \/ G_SelectOne
  \/ G_SelectImages
  \/ G_ClearAll
  \/ G_ClickSingle
  \/ G_ClickBatch
  \/ G_Deliver
  \/ BatchStep
  \/ SingleStep
  \/ UpscaleStep(1)
  \/ RunReturns

SpecWin == InitWin /\ [][NextWin]_vars

\* The window used for batches only: the image list, the batch button and
\* the batch worker.
NextList ==
  \/ G_SelectOne
  \/ G_SelectImages
  \/ G_ClearAll
  \/ G_ClickBatch
  \/ G_Deliver
  \/ BatchStep
  \/ UpscaleStep(1)
  \/ RunReturns

SpecList == InitWin /\ [][NextList]_vars

\* C23 (as claimed): once the GUI thread has delivered the finished signal of
\* the latest operation, the processor is not busy, so that a request made
\* from then on is accepted.
C23_NotBusyAfterFinished ==
  (runs > 0 /\ notified = runs) => ~IsBusy

\* C24 (as claimed): the delivery of a batch worker's finished signal runs
\* on_batch_finished, which leaves the batch button enabled, on every path
\* on which the worker ended.
C24_BatchButtonReenabled ==
  [][(inbox # <<>> /\ inbox' = Tail(inbox)
        /\ Head(inbox).sig = "finished" /\ Head(inbox).from = "batch") =>
       batchButton'
    ]_vars

\* C27: the batch worker's inputs are the list as it was at the click that
\* started it; no later step, a change of the selection included, changes
\* them while the worker runs, and the total the worker counts to is their
\* number.
C27_BatchInputsAreSnapshot ==
  [][/\ (runs' = runs + 1 /\ worker' = "batch") => input_paths' = image_paths
     /\ (worker = "batch" /\ worker' = "batch" /\ runs' = runs) =>
          input_paths' = input_paths
     /\ (worker' = "batch" /\ wpc' # "init") => total' = Len(input_paths')
    ]_vars

\* A batch of two has ended with both items handled and reports 2 as its
\* total, although the list was cleared while it ran.
C27_Witness ==
  /\ worker = "batch" /\ wpc = "done"
  /\ Len(input_paths) = 2 /\ Len(results) = 2
  /\ image_paths = <<>>
  /\ signals[Len(signals)] = Finished(<<success_count, 2>>)

====
